---- MODULE Spec2Model ----
(***************************************************************************)
(* Model of src/src/iRadioAudio.cpp: the audio side of the iRadio firmware. *)
(* The module keeps a debounced volume (oldvolume, volcount), shows a       *)
(* volume indicator on line 0 of the streaming screen for two seconds       *)
(* after a change (voldisplaystart) and routes the stream title and the     *)
(* station name to lines 1..3.                                              *)
(*                                                                          *)
(* Strings are sequences of byte codes (a String of the Arduino core).      *)
(* Times are 32-bit values: millis() returns an unsigned long, which is     *)
(* kept here as its two's-complement image (the value an int holds after    *)
(* `voldisplaystart = millis()`), since that is the width the code          *)
(* computes with.                                                           *)
(***************************************************************************)
EXTENDS Integers, Sequences, FiniteSets, TLC

VARIABLES
    pc,               \* "boot": constructed, setupAudio not yet run;
                      \* "idle": between two calls of loopAudioLautst;
                      \* "poll": inside loopAudioLautst, at audio.loop();
                      \* "call", "return": before and after a call of getBlocks alone
    oldvolume,        \* uint8_t oldvolume: the level last given to the audio engine
    volcount,         \* uint8_t volcount: the stability counter
    volume,           \* int volume: the level mapped from the last reading
    voldisplaystart,  \* int voldisplaystart: millis() of the last commit
    audioVolume,      \* the Audio object: the argument of the last setVolume (-1: none yet)
    region,           \* streamingScreen: the text of lines 0..3
    clock,            \* the value millis() returned last
    raw,              \* the value analogRead(VOL) returned last
    committed,        \* did the last loopAudioLautst set a new volume
    run,              \* consecutive ticks, up to the last, whose level differed from oldvolume
    steady,           \* did every tick of that run read the same level
    osc,              \* did every tick of that run, but the first, read another level
                      \* than the tick before it
    writers,          \* who wrote line 0 in the current (or the last) loopAudioLautst
    connects,         \* the Audio object: the number of connecttohost calls
    connectStatus,    \* what the last connecttohost returned ("none": no call yet)
    call,             \* the last call seen from outside: <<function, argument>>
    ret               \* the result of the last call of getBlocks

vars == <<pc, oldvolume, volcount, volume, voldisplaystart, audioVolume, region,
          clock, raw, committed, run, steady, osc, writers, connects,
          connectStatus, call, ret>>

----------------------------------------------------------------------------
(* Program constants *)

volume_max == 20

\* the literal of `if (volcount < 25)`
CountLimit == 25

\* the literal of `voldisplaystart + 2000 < millis()`
HoldMs == 2000

\* analogReadResolution(10): analogRead returns 0 .. 2^10 - 1
AnalogMax == 1023

\* the width of getBlocks' result: `while (blocks.length() < 7)`
BlocksWidth == 7

\* the largest int (32 bits on the ESP32)
IntMax == 2147483647

IntMin == -IntMax - 1

volumeBlocks == <<212, 211, 210, 209, 208>>

----------------------------------------------------------------------------
(* 32-bit arithmetic *)

\* a + d in 32 bits, wrapping (0 <= d <= IntMax)
Add32(a, d) ==
    IF a > IntMax - d THEN IntMin + (d - (IntMax - a) - 1) ELSE a + d

\* a < b, both read as unsigned 32-bit values
ULt(a, b) ==
    IF (a < 0) = (b < 0) THEN a < b ELSE a >= 0

\* a value stored into a uint8_t
ToUint8(x) == x % 256

----------------------------------------------------------------------------
(* Arduino core: map() and String *)

\* long map(long x, long in_min, long in_max, long out_min, long out_max)
map(x, in_min, in_max, out_min, out_max) ==
    ((x - in_min) * (out_max - out_min)) \div (in_max - in_min) + out_min

\* String::indexOf(const String &): the first index (from 0) at which pat
\* occurs in s, or -1
indexOf(s, pat) ==
    LET hits == {i \in 0 .. (Len(s) - Len(pat)) :
                    \A k \in 1 .. Len(pat) : s[i + k] = pat[k]}
    IN  IF Len(s) = 0 \/ hits = {} THEN -1
        ELSE CHOOSE i \in hits : \A j \in hits : i <= j

\* String::substring(unsigned left, unsigned right): the characters
\* left .. right-1 (from 0), the two swapped when left > right, right cut to
\* the length, empty when left is at or past the end
substring(s, left, right) ==
    LET lo == IF left > right THEN right ELSE left
        hi == IF left > right THEN left ELSE right
    IN  IF lo >= Len(s) THEN <<>>
        ELSE SubSeq(s, lo + 1, IF hi > Len(s) THEN Len(s) ELSE hi)

----------------------------------------------------------------------------
(* Collaborators declared outside this file *)

\* extraChar (iRadioDisplay): recodes characters the display has no glyph for.
\* The titles of this model are 7-bit ASCII, which it leaves as they are.
extraChar(s) == s

\* "iRadio  " + getTime() + "      "
DefaultText(time) ==
    <<105, 82, 97, 100, 105, 111, 32, 32>> \o time \o <<32, 32, 32, 32, 32, 32>>

----------------------------------------------------------------------------
(* Bounds and input sets *)

\* the clock values a behaviour may reach lie within MaxTime of 0 or of the
\* end of a long idle period
MaxTime == 2001

\* the longest title made of Alphabet letters
MaxTitleLen == 4

\* connectCurrentStation is called at most this often
MaxConnects == 2

\* what millis() may have advanced by since it was last read
Dt == {0, HoldMs - 1, HoldMs, HoldMs + 1}

\* the strings getTime() returns: "12:00", "12:01"
TimeTexts == {<<49, 50, 58, 48, 48>>, <<49, 50, 58, 48, 49>>}

\* the name getCurrentStation() returns: "FH Radio"
StationName == <<70, 72, 32, 82, 97, 100, 105, 111>>

\* the station names the stream sends: "fhdo"
StreamStations == {<<102, 104, 100, 111>>}

\* the readings of the volume pin while running and at start-up
RawSamples == {0, AnalogMax}

SetupSamples == {0, AnalogMax}

AllRaw == 0 .. AnalogMax

\* every argument of a uint8_t parameter
Uint8 == 0 .. 255

\* "Radio Caprice - Industrial Mix"
TitleCaprice ==
    <<82, 97, 100, 105, 111, 32, 67, 97, 112, 114, 105, 99, 101, 32, 45, 32,
      73, 110, 100, 117, 115, 116, 114, 105, 97, 108, 32, 77, 105, 120>>

\* "LiveStreamNoSplit"
TitleNoSplit ==
    <<76, 105, 118, 101, 83, 116, 114, 101, 97, 109, 78, 111, 83, 112, 108, 105, 116>>

\* "Artist: Song"
TitleColon == <<65, 114, 116, 105, 115, 116, 58, 32, 83, 111, 110, 103>>

PollTitles == {TitleCaprice}

\* "a", " ", "-", ":"
Alphabet == {97, 32, 45, 58}

ShortTitles == UNION {[1 .. n -> Alphabet] : n \in 0 .. MaxTitleLen}

\* titles whose " - " lies at index 255, 256 and 257: "aaa...a - b"
LongTitles == {[i \in 1 .. n |-> 97] \o <<32, 45, 32, 98>> : n \in {255, 256, 257}}

AllTitles == ShortTitles \cup LongTitles \cup {TitleCaprice, TitleNoSplit, TitleColon}

\* the clock values a long idle period may end at: just before
\* voldisplaystart + 2000 would overflow an int, and just before it would
\* wrap around 32 bits
IdleUntil == {IntMax - 2 * HoldMs + 1, -2 * HoldMs}

\* c is one of the m + 1 clock values from b on
Within(b, c, m) ==
    IF b <= IntMax - m THEN b <= c /\ c <= b + m
    ELSE c >= b \/ c <= IntMin + (m - (IntMax - b) - 1)

InBounds(c) == \E b \in {0} \cup IdleUntil : Within(b, c, MaxTime)

----------------------------------------------------------------------------
(* The program *)

\* the reading of setupAudio: stored into the uint8_t oldvolume, then mapped
SetupLevel(r) == ToUint8(map(ToUint8(r), 0, AnalogMax, 0, volume_max))

\* the reading mapped as if the pin had 9 bits
SampleLevel9Bit(r) == map(r, 0, 511, 0, volume_max)

\* the reading of loopAudioLautst: stored into the int volume, then mapped
SampleLevel(r) == map(r, 0, AnalogMax, 0, volume_max)

\* the partial glyph taken one step further along the gradient
getBlocksNextGlyph(v) ==
    LET full    == [i \in 1 .. (v \div 5) |-> volumeBlocks[5]]
        partial == IF v % 5 # 0 THEN <<volumeBlocks[(v % 5) + 1]>> ELSE <<>>
        warn    == IF v >= 20 THEN <<33>> ELSE <<>>
        blocks  == full \o partial \o warn
    IN  IF Len(blocks) < BlocksWidth
        THEN blocks \o [i \in 1 .. (BlocksWidth - Len(blocks)) |-> 32]
        ELSE blocks

\* getBlocks padding `while (blocks.length() <= 7)`
getBlocksPadLe(v) ==
    LET full    == [i \in 1 .. (v \div 5) |-> volumeBlocks[5]]
        partial == IF v % 5 # 0 THEN <<volumeBlocks[((v % 5) - 1) + 1]>> ELSE <<>>
        warn    == IF v >= 20 THEN <<33>> ELSE <<>>
        blocks  == full \o partial \o warn
    IN  IF Len(blocks) <= BlocksWidth
        THEN blocks \o [i \in 1 .. (BlocksWidth + 1 - Len(blocks)) |-> 32]
        ELSE blocks

\* String getBlocks(uint8_t volume)
getBlocks(v) ==
    LET full    == [i \in 1 .. (v \div 5) |-> volumeBlocks[5]]
        partial == IF v % 5 # 0 THEN <<volumeBlocks[((v % 5) - 1) + 1]>> ELSE <<>>
        warn    == IF v >= 20 THEN <<33>> ELSE <<>>
        blocks  == full \o partial \o warn
    IN  IF Len(blocks) < BlocksWidth
        THEN blocks \o [i \in 1 .. (BlocksWidth - Len(blocks)) |-> 32]
        ELSE blocks

\* the hold timer compared with <= instead of <
HoldExpiredAt(start, now) ==
    IF start > IntMax - HoldMs THEN BOOLEAN
    ELSE {~ULt(now, start + HoldMs)}

\* the outcomes of `voldisplaystart + 2000 < millis()`: the sum is an int
\* (undefined when it overflows), the comparison is unsigned
HoldExpired(start, now) ==
    IF start > IntMax - HoldMs THEN BOOLEAN
    ELSE {ULt(start + HoldMs, now)}

\* the level compared with the one read by the call before
ChangedFromLast(level, old) == level # volume

\* `if (volume != oldvolume)`
Changed(level, old) == level # old

\* one more differing reading is waited for
StillCountingLong(count) == count < CountLimit + 1

\* the counter compared with 24
StillCountingShort(count) == count < CountLimit - 1

\* `if (volcount < 25)`
StillCounting(count) == count < CountLimit

\* audio.setVolume given oldvolume, which the commit has not yet updated
SetVolumeArgOld(level, old) == old

\* the argument of audio.setVolume(volume), a uint8_t
SetVolumeArg(level, old) == ToUint8(level)

\* uint8_t p of audio_showstreamtitle
SplitAt(name) ==
    LET p == ToUint8(indexOf(name, <<32, 45, 32>>))
    IN  IF p = 0 THEN ToUint8(indexOf(name, <<58, 32>>)) ELSE p

Artist(name) == substring(name, 0, SplitAt(name))

Title(name) == substring(name, SplitAt(name) + 3, Len(name))

\* a second connecttohost after one that failed
ConnectCallsRetry(status) == IF status THEN 1 ELSE 2

\* the connecttohost calls of one connectCurrentStation, given what the
\* first returns
ConnectCalls(status) == 1

\* the indicator written to line 1
ShowVolumeLine1(lines, level) == [lines EXCEPT ![1] = getBlocks(ToUint8(level))]

\* streamingScreen.setText(String(getBlocks(volume)), 0)
ShowVolume(lines, level) == [lines EXCEPT ![0] = getBlocks(ToUint8(level))]

\* the artist written to line 0
ShowTitleLine0(lines, name) == [lines EXCEPT ![0] = Artist(name), ![3] = Title(name)]

\* the two setText calls of audio_showstreamtitle
ShowTitle(lines, name) == [lines EXCEPT ![2] = Artist(name), ![3] = Title(name)]

\* the globals as their definitions initialise them, the display blank
Globals ==
    /\ oldvolume = 0
    /\ volcount = 0
    /\ volume = 0
    /\ voldisplaystart = 0
    /\ audioVolume = -1
    /\ region = [i \in 0 .. 3 |-> <<>>]
    /\ clock = 0
    /\ raw = 0
    /\ committed = FALSE
    /\ run = 0
    /\ steady = TRUE
    /\ osc = TRUE
    /\ writers = <<>>
    /\ connects = 0
    /\ connectStatus = "none"
    /\ ret = <<>>

Init ==
    /\ pc = "boot"
    /\ call = <<"none", <<>>>>
    /\ Globals

setupAudio(r) ==
    /\ pc = "boot"
    /\ raw' = r
    /\ oldvolume' = SetupLevel(r)
    /\ audioVolume' = oldvolume'
    /\ pc' = "idle"
    /\ UNCHANGED <<volcount, volume, voldisplaystart, region, clock, committed,
                   run, steady, osc, writers, connects, connectStatus, call, ret>>

\* loopAudioLautst up to audio.loop(): the check of the hold timer
loopAudioLautstBegin(d, time) ==
    /\ pc = "idle"
    /\ InBounds(Add32(clock, d))
    /\ clock' = Add32(clock, d)
    /\ \E expired \in HoldExpired(voldisplaystart, clock') :
          /\ region' = IF expired THEN [region EXCEPT ![0] = DefaultText(time)]
                       ELSE region
          /\ writers' = IF expired THEN <<"default">> ELSE <<>>
    /\ pc' = "poll"
    /\ UNCHANGED <<oldvolume, volcount, volume, voldisplaystart, audioVolume, raw,
                   committed, run, steady, osc, connects, connectStatus, call, ret>>

\* called by the audio engine from audio.loop()
audio_showstreamtitle(theStreamTitle) ==
    /\ pc = "poll"
    /\ call' = <<"audio_showstreamtitle", theStreamTitle>>
    /\ region' = ShowTitle(region, extraChar(theStreamTitle))
    /\ UNCHANGED <<pc, oldvolume, volcount, volume, voldisplaystart, audioVolume,
                   clock, raw, committed, run, steady, osc, writers, connects,
                   connectStatus, ret>>

\* called by the audio engine from audio.loop(); theStation is not used
audio_showstation(theStation) ==
    /\ pc = "poll"
    /\ call' = <<"audio_showstation", theStation>>
    /\ region' = [region EXCEPT ![1] = StationName]
    /\ UNCHANGED <<pc, oldvolume, volcount, volume, voldisplaystart, audioVolume,
                   clock, raw, committed, run, steady, osc, writers, connects,
                   connectStatus, ret>>

\* loopAudioLautst from audio.loop() on: the reading and the debouncer
loopAudioLautstEnd(r, d) ==
    /\ pc = "poll"
    /\ raw' = r
    /\ volume' = SampleLevel(r)
    /\ IF Changed(volume', oldvolume)
       THEN IF StillCounting(volcount)
            THEN /\ volcount' = ToUint8(volcount + 1)
                 /\ committed' = FALSE
                 /\ UNCHANGED <<oldvolume, voldisplaystart, audioVolume, region, clock,
                                writers>>
            ELSE /\ InBounds(Add32(clock, d))
                 /\ volcount' = 0
                 /\ clock' = Add32(clock, d)
                 /\ voldisplaystart' = clock'
                 /\ audioVolume' = SetVolumeArg(volume', oldvolume)
                 /\ region' = ShowVolume(region, volume')
                 /\ writers' = Append(writers, "volume")
                 /\ oldvolume' = ToUint8(volume')
                 /\ committed' = TRUE
       ELSE /\ volcount' = 0
            /\ committed' = FALSE
            /\ UNCHANGED <<oldvolume, voldisplaystart, audioVolume, region, clock,
                           writers>>
    /\ run' = IF volume' # oldvolume THEN (IF committed THEN 1 ELSE run + 1) ELSE 0
    /\ steady' = (run' <= 1 \/ (steady /\ volume' = volume))
    /\ osc' = (run' <= 1 \/ (osc /\ volume' # volume))
    /\ pc' = "idle"
    /\ UNCHANGED <<connects, connectStatus, call, ret>>

\* any number of calls of loopAudioLautst while nothing happens: the knob
\* rests at the level in use and line 0 shows the default text, so that
\* each call only reads the clock
LongIdle(until) ==
    /\ pc = "idle"
    /\ volume = oldvolume
    /\ volcount = 0
    /\ \E time \in TimeTexts : region[0] = DefaultText(time)
    /\ ULt(clock, until)
    /\ clock' = until
    /\ committed' = FALSE
    /\ run' = 0
    /\ steady' = TRUE
    /\ osc' = TRUE
    /\ \E expired \in HoldExpired(voldisplaystart, until) :
          writers' = IF expired THEN <<"default">> ELSE <<>>
    /\ UNCHANGED <<pc, oldvolume, volcount, volume, voldisplaystart, audioVolume,
                   region, raw, connects, connectStatus, call, ret>>

\* the station's url is handed to the player once, and what the player
\* returns is logged
connectCurrentStation(status) ==
    /\ pc \in {"boot", "idle"}
    /\ connects < MaxConnects
    /\ connects' = connects + ConnectCalls(status)
    /\ connectStatus' = IF status THEN "T" ELSE "F"
    /\ UNCHANGED <<pc, oldvolume, volcount, volume, voldisplaystart, audioVolume,
                   region, clock, raw, committed, run, steady, osc, writers,
                   call, ret>>

Next ==
    \/ \E r \in SetupSamples : setupAudio(r)
    \/ \E d \in Dt, time \in TimeTexts : loopAudioLautstBegin(d, time)
    \/ \E t \in PollTitles : audio_showstreamtitle(t)
    \/ \E n \in StreamStations : audio_showstation(n)
    \/ \E r \in RawSamples, d \in Dt : loopAudioLautstEnd(r, d)
    \/ \E until \in IdleUntil : LongIdle(until)

Spec == Init /\ [][Next]_vars

----------------------------------------------------------------------------
(* The connection to the station, made at any time between two calls of    *)
(* loopAudioLautst, the knob read at both ends and the clock before and    *)
(* after the hold.                                                          *)

NextConnect ==
    \/ \E r \in SetupSamples : setupAudio(r)
    \/ \E status \in BOOLEAN : connectCurrentStation(status)
    \/ \E d \in {0, HoldMs + 1}, time \in TimeTexts : loopAudioLautstBegin(d, time)
    \/ \E t \in PollTitles : audio_showstreamtitle(t)
    \/ \E n \in StreamStations : audio_showstation(n)
    \/ \E r \in RawSamples : loopAudioLautstEnd(r, 0)

SpecConnect == Init /\ [][NextConnect]_vars

----------------------------------------------------------------------------
(* The sampler and the debouncer over every level: every reading at        *)
(* start-up, then the first and the last reading of each level, the clock   *)
(* standing still.                                                          *)

LevelEdges ==
    {r \in AllRaw : \/ r = 0
                    \/ r = AnalogMax
                    \/ SampleLevel(r) # SampleLevel(r - 1)
                    \/ SampleLevel(r) # SampleLevel(r + 1)}

NextSample ==
    \/ \E r \in AllRaw : setupAudio(r)
    \/ \E time \in TimeTexts : loopAudioLautstBegin(0, time)
    \/ \E r \in LevelEdges : loopAudioLautstEnd(r, 0)

SpecSample == Init /\ [][NextSample]_vars

----------------------------------------------------------------------------
(* The title callback over many titles, the knob at rest and the clock     *)
(* standing still.                                                          *)

NextTitle ==
    \/ \E r \in {0} : setupAudio(r)
    \/ \E time \in TimeTexts : loopAudioLautstBegin(0, time)
    \/ \E t \in AllTitles : audio_showstreamtitle(t)
    \/ \E r \in {0} : loopAudioLautstEnd(r, 0)

SpecTitle == Init /\ [][NextTitle]_vars

----------------------------------------------------------------------------
(* getBlocks alone, called with every value of its parameter.              *)

InitBlocks ==
    /\ pc = "call"
    /\ call \in {<<"getBlocks", level>> : level \in Uint8}
    /\ Globals

getBlocksCall ==
    /\ pc = "call"
    /\ call[1] = "getBlocks"
    /\ ret' = getBlocks(call[2])
    /\ pc' = "return"
    /\ UNCHANGED <<oldvolume, volcount, volume, voldisplaystart, audioVolume,
                   region, clock, raw, committed, run, steady, osc, writers,
                   connects, connectStatus, call>>

NextBlocks == getBlocksCall

SpecBlocks == InitBlocks /\ [][NextBlocks]_vars

----------------------------------------------------------------------------
(* Properties *)

\* line 0 shows the indicator of the level in use
ShowingVolume == region[0] = getBlocks(oldvolume)

\* a default status text
IsDefault(text) == \E time \in TimeTexts : text = DefaultText(time)

\* start + 2000 neither overflows an int nor wraps around 32 bits
SumFits(start) ==
    /\ start <= IntMax - 2000
    /\ ~(start < 0 /\ start >= -2000)

\* C1, as claimed: a tick commits only if its level differs from the level
\* of the tick before (so that 26 such ticks can have passed), and a tick
\* whose level equals the level of the tick before resets volcount to 0
\* (run >= 1: there is a tick before, and volume holds its level).
C1_DiffersFromObserved ==
    [][(pc = "poll" /\ pc' = "idle" /\ run >= 1) =>
          /\ committed' => volume' # volume
          /\ volume' = volume => volcount' = 0]_vars

\* C1, amended: a tick commits only as the 26th of consecutive ticks whose
\* level differs from the committed level (oldvolume), and a tick whose
\* level equals the committed level resets volcount to 0.
C1_DiffersFromCommitted ==
    /\ committed => run >= 26
    /\ run = 0 => volcount = 0

C1_Witness ==
    /\ pc = "idle"
    /\ committed
    /\ run = 26
    /\ oldvolume = SampleLevel(raw)

\* C2: a tick that commits ends with oldvolume the level read in that tick,
\* volcount 0, the audio volume that level and line 0 the indicator of that
\* level; after setupAudio the audio volume always equals oldvolume.
C2_CommitEffect ==
    /\ pc \in {"idle", "poll"} => audioVolume = oldvolume
    /\ (pc = "idle" /\ committed) =>
          /\ oldvolume = SampleLevel(raw)
          /\ volcount = 0
          /\ audioVolume = SampleLevel(raw)
          /\ region[0] = getBlocks(SampleLevel(raw))

C2_Witness ==
    /\ pc = "idle"
    /\ committed
    /\ raw = AnalogMax
    /\ audioVolume = 20
    /\ region[0] = <<208, 208, 208, 208, 33, 32, 32>>

\* C3, as claimed: while line 0 shows the indicator of a commit at time t, a
\* tick at a time up to t + 1999 leaves it, and the tick at t + 2000 puts
\* the default status text there.
C3_RevertAtHold ==
    [][(pc = "idle" /\ pc' = "poll" /\ ShowingVolume) =>
          /\ Within(voldisplaystart, clock', 1999) => region'[0] = region[0]
          /\ clock' = Add32(voldisplaystart, 2000) => IsDefault(region'[0])]_vars

\* C3, amended: while line 0 shows the indicator of a commit at time t, with
\* t + 2000 within both an int and 32 bits, a tick at a time up to t + 2000
\* leaves it, and a tick at a later time (t + 2001 or more) puts the
\* default status text there.
C3_RevertAfterHold ==
    [][(pc = "idle" /\ pc' = "poll" /\ ShowingVolume /\ SumFits(voldisplaystart)) =>
          /\ Within(voldisplaystart, clock', 2000) => region'[0] = region[0]
          /\ ULt(Add32(voldisplaystart, 2000), clock') => IsDefault(region'[0])]_vars

C3_Witness ==
    /\ pc = "poll"
    /\ oldvolume = 20
    /\ audioVolume = 20
    /\ clock = Add32(voldisplaystart, 2001)
    /\ IsDefault(region[0])

\* C4: the level of every reading 0 .. 1023, the level read last, the
\* committed level and the audio volume lie in 0 .. 20; a commit at reading
\* 0 gives 0 and a commit at reading 1023 gives 20.
C4_InRange ==
    /\ SampleLevel(raw) \in 0 .. 20
    /\ volume \in 0 .. 20
    /\ oldvolume \in 0 .. 20
    /\ pc # "boot" => audioVolume \in 0 .. 20
    /\ (pc = "idle" /\ committed /\ raw = 0) => oldvolume = 0
    /\ (pc = "idle" /\ committed /\ raw = 1023) => oldvolume = 20

C4_Witness ==
    /\ pc = "idle"
    /\ committed
    /\ raw = 1023
    /\ oldvolume = 20
    /\ audioVolume = 20

\* C5: setupAudio leaves in oldvolume, and gives to the audio engine, the
\* level the sampler of the tick maps its reading to.
C5_SetupMapsReading ==
    [][(pc = "boot" /\ pc' = "idle") =>
          /\ oldvolume' = SampleLevel(raw')
          /\ audioVolume' = SampleLevel(raw')]_vars

\* C6: getBlocks of a level 0 .. 20 is 7 characters long.
C6_Length ==
    (pc = "return" /\ call[2] \in 0 .. 20) => Len(ret) = 7

C6_Witness ==
    /\ pc = "return"
    /\ call[2] = 20
    /\ ret = <<208, 208, 208, 208, 33, 32, 32>>

\* the title the audio engine delivered last, if it was the last call
Delivered == IF call[1] = "audio_showstreamtitle" THEN call[2] ELSE <<>>

\* C7: a title with " - " at index i has the text before i on line 2 and
\* the text from i + 3 on on line 3.
C7_PrimarySplit ==
    LET s == Delivered
        i == indexOf(s, <<32, 45, 32>>)
    IN  (call[1] = "audio_showstreamtitle" /\ i # -1) =>
           /\ region[2] = SubSeq(s, 1, i)
           /\ region[3] = SubSeq(s, i + 4, Len(s))

\* C8: a title without " - " and with ": " at index j has the text before j
\* on line 2 and the text from j + 2 on on line 3.
C8_SecondarySplit ==
    LET s == Delivered
        i == indexOf(s, <<32, 45, 32>>)
        j == indexOf(s, <<58, 32>>)
    IN  (call[1] = "audio_showstreamtitle" /\ i = -1 /\ j # -1) =>
           /\ region[2] = SubSeq(s, 1, j)
           /\ region[3] = SubSeq(s, j + 3, Len(s))

\* C9: a title with neither " - " nor ": " has nothing on line 2 and the
\* whole title on line 3.
C9_NoSplit ==
    LET s == Delivered
        i == indexOf(s, <<32, 45, 32>>)
        j == indexOf(s, <<58, 32>>)
    IN  (call[1] = "audio_showstreamtitle" /\ i = -1 /\ j = -1) =>
           /\ region[2] = <<>>
           /\ region[3] = s

\* C10: whatever line 0 shows, the title callback leaves artist and title
\* on lines 2 and 3 and the station callback the station name on line 1 at
\* once; neither changes line 0, oldvolume, volcount or voldisplaystart.
C10_Callbacks ==
    /\ [](/\ call[1] = "audio_showstreamtitle" =>
               /\ region[2] = Artist(extraChar(call[2]))
               /\ region[3] = Title(extraChar(call[2]))
          /\ call = <<"audio_showstreamtitle", TitleCaprice>> =>
               /\ region[2] = <<82, 97, 100, 105, 111, 32, 67, 97, 112, 114, 105, 99, 101>>
               /\ region[3] = <<73, 110, 100, 117, 115, 116, 114, 105, 97, 108, 32, 77, 105, 120>>
          /\ call[1] = "audio_showstation" => region[1] = StationName)
    /\ [][(pc = "poll" /\ pc' = "poll") =>
             /\ region'[0] = region[0]
             /\ oldvolume' = oldvolume
             /\ volcount' = volcount
             /\ voldisplaystart' = voldisplaystart]_vars

C10_Witness ==
    /\ pc = "poll"
    /\ ShowingVolume
    /\ oldvolume = 20
    /\ call = <<"audio_showstreamtitle", TitleCaprice>>
    /\ region[1] = StationName
    /\ region[2] = <<82, 97, 100, 105, 111, 32, 67, 97, 112, 114, 105, 99, 101>>
    /\ region[3] = <<73, 110, 100, 117, 115, 116, 114, 105, 97, 108, 32, 77, 105, 120>>

\* C11: a connectCurrentStation whose connect fails hands the url to the
\* player exactly once and leaves the debouncer, the hold timer, the volume
\* and every line of the display as they were, and no call of
\* loopAudioLautst and no callback connects again
C11_FailureOnlyLogs ==
    [][/\ (connectStatus' = "F" /\ connects' # connects)
          => /\ connects' = connects + 1
             /\ UNCHANGED <<oldvolume, volcount, volume, voldisplaystart,
                            audioVolume, region, clock, pc>>
       /\ (pc' # pc \/ call' # call \/ region' # region \/ clock' # clock)
          => UNCHANGED <<connects, connectStatus>>]_vars

\* the connect failed once, and a later tick took a new level into use
\* without connecting again
C11_Witness ==
    /\ connectStatus = "F"
    /\ connects = 1
    /\ committed
    /\ pc = "idle"

\* C12, as claimed: a run of ticks whose levels differ from the level in use
\* and each from the level of the tick before never ends in a commit
C12_OscillationNeverCommits ==
    (osc /\ run >= 2) => ~committed

\* C12: while the level alternates between two readings that both differ
\* from the level in use, the first 25 ticks commit nothing and the 26th
\* commits the level it read, to the player as well
C12_OscillationCommits ==
    (osc /\ run >= 2) =>
        /\ run <= CountLimit + 1
        /\ committed <=> run = CountLimit + 1
        /\ committed => (oldvolume = volume /\ audioVolume = volume)
        /\ ~committed => (oldvolume # volume /\ audioVolume = oldvolume)

\* the knob alternated between the two ends for 26 ticks, the level in use
\* being the start-up level 4, and the 26th tick committed
C12_Witness ==
    /\ pc = "idle"
    /\ osc
    /\ run = CountLimit + 1
    /\ committed
    /\ oldvolume \in {0, volume_max}

\* C13, as claimed: every tick ends with oldvolume at the level it sampled
C13_StoresSample ==
    [][(pc = "poll" /\ pc' = "idle") => oldvolume' = SampleLevel(raw')]_vars

\* C13: every tick ends with the global volume at the level it sampled;
\* oldvolume equals that level exactly when the tick ends with volcount
\* at 0 (it committed, or it sampled the level in use), and otherwise
\* oldvolume keeps the level in use
C13_VolumeStoresSample ==
    [][(pc = "poll" /\ pc' = "idle") =>
          /\ volume' = SampleLevel(raw')
          /\ (oldvolume' = volume') <=> (volcount' = 0)
          /\ volcount' # 0 => oldvolume' = oldvolume]_vars

\* a tick ended counting: oldvolume is not the level it sampled
C13_Witness ==
    /\ pc = "idle"
    /\ volcount > 0
    /\ volume = SampleLevel(raw)
    /\ oldvolume # volume

\* C14: a level that stays away from the level in use is committed by the
\* 26th tick in a row that differs from the level in use, never later,
\* whatever was read before it settled: the level in use and the player's
\* volume are then that level, however small the change
C14_SustainedChangeCommits ==
    (run >= 1) =>
        /\ run <= CountLimit + 1
        /\ run = CountLimit + 1 =>
              /\ committed
              /\ volume = SampleLevel(raw)
              /\ oldvolume = volume
              /\ audioVolume = volume

\* the knob was moved by one level, from 4 to 5, and held for 26 ticks
C14_Witness ==
    /\ pc = "idle"
    /\ steady
    /\ run = CountLimit + 1
    /\ committed
    /\ oldvolume = 5
    /\ audioVolume = 5

\* C15: a tick that is not the 26th in a row to differ from the level in
\* use leaves the player's volume, the level in use, the hold timer and
\* line 0 alone, and a tick that reads the level in use resets volcount
C15_ShortDisturbance ==
    [][(pc = "poll" /\ pc' = "idle") =>
          /\ run' < CountLimit + 1 =>
                /\ UNCHANGED <<audioVolume, oldvolume, voldisplaystart>>
                /\ region'[0] = region[0]
                /\ ~committed'
          /\ SampleLevel(raw') = oldvolume => volcount' = 0]_vars

\* a disturbance of 25 ticks: nothing was committed
C15_Witness ==
    /\ pc = "idle"
    /\ run = CountLimit
    /\ volcount = CountLimit
    /\ ~committed
    /\ audioVolume = oldvolume
    /\ volume # oldvolume

\* C16: volcount stays within 0 .. 25
C16_CounterRange == volcount \in 0 .. CountLimit

\* the counter at its limit
C16_Witness == volcount = CountLimit /\ pc = "idle"

\* C17, as claimed: a tick that finds the default text in line 0 does not
\* write it again
C17_WritesOnTransitionOnly ==
    [][(pc = "idle" /\ pc' = "poll" /\ IsDefault(region[0]))
          => writers' = <<>>]_vars

\* C17: the hold check writes the default text in every tick whose clock
\* is past voldisplaystart + 2000 (the sum fitting), whatever line 0 shows,
\* and in the other ticks it writes nothing
C17_WritesWheneverExpired ==
    [][(pc = "idle" /\ pc' = "poll" /\ SumFits(voldisplaystart)) =>
          /\ (writers' = <<"default">>) <=> ULt(voldisplaystart + HoldMs, clock')
          /\ writers' = <<"default">> => IsDefault(region'[0])
          /\ writers' # <<"default">> => (writers' = <<>> /\ region' = region)]_vars

\* the default text was written although no level was ever committed:
\* the start-up level 4 is still in use
C17_Witness ==
    /\ pc = "poll"
    /\ writers = <<"default">>
    /\ IsDefault(region[0])
    /\ oldvolume = 4
    /\ voldisplaystart = 0
    /\ clock = HoldMs + 1

\* C18, as claimed: a tick has at most one writer of line 0, the default
\* text is written over an indicator only and the indicator over a
\* default text only
C18_OneWriterAlternating ==
    [][(pc' # pc) =>
          /\ Len(writers') <= 1
          /\ (pc' = "poll" /\ IsDefault(region[0])) => writers' = <<>>
          /\ (pc' = "idle" /\ committed') => ~ShowingVolume]_vars

\* C18: line 0 is written at most once by each writer in a tick, the
\* default text first and the indicator second, so that a tick in which
\* both write ends with the indicator of the level in use
C18_WritersInOrder ==
    /\ writers \in {<<>>, <<"default">>, <<"volume">>, <<"default", "volume">>}
    /\ writers = <<"default">> => IsDefault(region[0])
    /\ (writers # <<>> /\ writers[Len(writers)] = "volume")
          => (ShowingVolume /\ committed)
    /\ pc = "idle" => (committed <=> (writers # <<>> /\ writers[Len(writers)] = "volume"))

\* both writers wrote line 0 in one tick
C18_Witness ==
    /\ pc = "idle"
    /\ writers = <<"default", "volume">>
    /\ ShowingVolume

\* C19: for a level L of 0 .. 20 getBlocks returns 7 characters: L div 5
\* full glyphs 0xD0, then for L mod 5 = 1, 2, 3, 4 the glyph 0xD4, 0xD3,
\* 0xD2, 0xD1, then "!" for L = 20, then spaces
C19_BlocksLayout ==
    (pc = "return" /\ call[2] <= 20) =>
        LET L    == call[2]
            full == L \div 5
            part == IF L % 5 # 0 THEN 1 ELSE 0
        IN  /\ Len(ret) = 7
            /\ \A i \in 1 .. 7 :
                  ret[i] = IF i <= full THEN 208
                           ELSE IF i = full + 1 /\ part = 1
                                THEN <<212, 211, 210, 209>>[L % 5]
                           ELSE IF i = full + part + 1 /\ L >= 20 THEN 33
                           ELSE 32
            /\ L = 13 => ret = <<208, 208, 210, 32, 32, 32, 32>>
            /\ L = 20 => ret = <<208, 208, 208, 208, 33, 32, 32>>

\* getBlocks(13) returned two full glyphs and the glyph 0xD2
C19_Witness ==
    /\ pc = "return"
    /\ call = <<"getBlocks", 13>>
    /\ ret = <<208, 208, 210, 32, 32, 32, 32>>

\* C20, as claimed: whatever the level, getBlocks returns at most 7
\* characters
C20_NeverLonger ==
    pc = "return" => Len(ret) <= BlocksWidth

====
